---- MODULE Spec2Model ----
(***************************************************************************)
(* Land-cover workshop notebooks                                           *)
(*   0_Extract_Training_Features.ipynb          (nb = "training")          *)
(*   4_Post_Processing_Testing_Locations.ipynb  (nb = "testing")           *)
(*   5_Post_Processing_Entire_District.ipynb    (nb = "district")          *)
(*                                                                         *)
(* A notebook is a sequence of code cells run top to bottom; one action    *)
(* per code cell (one per loop iteration for the batch loop).  Arrays are  *)
(* functions from cells <<row, col>> to values.  A float array produced by *)
(* an averaging resample holds rationals <<numerator, denominator>>.       *)
(* A vector geometry is the function giving, for every grid cell, the      *)
(* distance in metres from the cell to the geometry (0: the geometry       *)
(* covers the cell).  At pc = "done" the cells that remain plot and write   *)
(* lc_map_postproc to disk unchanged.                                      *)
(***************************************************************************)
EXTENDS Integers, Sequences, FiniteSets, TLC

VARIABLES
    nb,                        \* the notebook being run
    pc,                        \* the next code cell to run
    files,                     \* contents of the input files, fixed at the first read
    road_network,              \* selected, buffered road features
    river_network,             \* selected waterway features
    shorelines_gdf_2021,       \* coastline features of year 2021
    lc_map,                    \* the classification raster as loaded
    np_lc_map,                 \* its numpy array (the pre-filter raster)
    np_lc_map_postproc,        \* the working raster
    np_hand,
    np_river_network_mask,
    np_MNDWI,
    np_google_buildings_mask,
    np_wsf2019,
    np_road_network_mask,
    np_shorelines_2021_mask,
    lc_map_postproc,           \* the reconstructed output DataArray
    after,                     \* history: working raster after each step of each pass
    training_data,             \* class labels of the training records
    clipped,                   \* what gdalwarp left for each auxiliary raster
    locations,                 \* the input rasters of every testing location
    prediction_maps_postproc,  \* the outputs the batch loop has appended
    loc                        \* the location the batch loop processes next

vars == <<nb, pc, files, road_network, river_network, shorelines_gdf_2021,
          lc_map, np_lc_map, np_lc_map_postproc, np_hand, np_river_network_mask,
          np_MNDWI, np_google_buildings_mask, np_wsf2019, np_road_network_mask,
          np_shorelines_2021_mask, lc_map_postproc, after, training_data, clipped,
          locations, prediction_maps_postproc, loc>>

----------------------------------------------------------------------------
(* Bounds of the model *)

\* columns of the one-row raster the notebooks process
Width == 2

\* columns of the two-row raster of the filter-only specification
FilterCols == 4

\* records of the training data
MaxRecords == 2

\* testing locations of the batch loop
Locations == 2

\* columns of the one-row raster of the flooded-vegetation specification
VegCols == 7

----------------------------------------------------------------------------
(* Analysis parameters *)

dict_map ==
    ("Tree crops" :> 11) @@ ("Field crops" :> 12) @@ ("Forest plantations" :> 21) @@
    ("Grassland" :> 31) @@
    ("Aquatic or regularly flooded herbaceous vegetation" :> 41) @@
    ("Water body" :> 44) @@ ("Settlements" :> 51) @@ ("Bare soils" :> 61) @@
    ("Mangrove" :> 70) @@ ("Mecrusse" :> 71) @@
    ("Broadleaved (Semi-) evergreen forest" :> 72) @@
    ("Broadleaved (Semi-) deciduous forest" :> 74) @@ ("Mopane" :> 75)

ClassCodes == {dict_map[k] : k \in DOMAIN dict_map}

\* dict_map of the training notebook: the 21 classes of the training data
dict_map_training ==
    ("Tree crops" :> 11) @@ ("Field crops" :> 12) @@ ("Forest plantations" :> 21) @@
    ("Grassland" :> 31) @@ ("Shrubland" :> 33) @@
    ("Aquatic or regularly flooded shrublands" :> 41) @@
    ("Aquatic or regularly flooded herbaceous vegetation" :> 42) @@
    ("Water body" :> 44) @@ ("Settlements" :> 51) @@ ("Bare soils" :> 61) @@
    ("Bare rocks" :> 62) @@ ("Mangrove" :> 70) @@ ("Mecrusse" :> 71) @@
    ("Closed broadleaved (Semi-) evergreen mountaineous forest" :> 72) @@
    ("Gallery forest" :> 73) @@
    ("Broadleaved (Semi-) deciduous closed forest" :> 74) @@ ("Mopane" :> 75) @@
    ("Open broadleaved (Semi-) evergreen mountaineous forest" :> 76) @@
    ("Coastal open woody vegetation" :> 77) @@ ("Mopane open" :> 78) @@
    ("Miombo open" :> 79)

\* surface values of the roads that are kept
RoadSurfaces ==
    {"asphalt", "paved", "compacted", "cobblestone", "concrete", "metal",
     "paving_stones", "paving_stones:30"}

\* waterway values of the rivers that are kept
Waterways == {"canal", "river"}

RoadBufferM == 10
ShoreBufferM == 50000
ShoreYear == "2021"
ModalRadius == 2
UrbanRadius == 5
HandMax == 45
MNDWIMin == 0
DemoBuiltValue == 255
BatchBuiltValue == 1
DistrictBuiltValue == 1

\* an unassigned Python name
None == <<>>

----------------------------------------------------------------------------
(* Library operations, as the libraries compute them *)

Max2(a, b) == IF a >= b THEN a ELSE b

\* skimage.morphology.disk(r): offsets <<dy, dx>> with dy^2 + dx^2 <= r^2
disk(r) == {o \in (-r..r) \X (-r..r) : o[1] * o[1] + o[2] * o[2] <= r * r}

\* footprint=disk(2) of the mode filter, footprint=disk(5) of the dilation
ModalFootprint == disk(ModalRadius)
UrbanFootprint == disk(UrbanRadius)

\* the cells of array a under the footprint centred on p (cells beyond the
\* border do not exist)
Under(a, p, footprint) ==
    {q \in DOMAIN a : <<q[1] - p[1], q[2] - p[2]>> \in footprint}

\* mutant: the highest value with the highest count
modalHighestWins(image, footprint, mask) ==
    [p \in DOMAIN image |->
        LET pop == {q \in Under(image, p, footprint) : mask[q]}
            histo(v) == Cardinality({q \in pop : image[q] = v})
            vals == {image[q] : q \in pop}
            best == {v \in vals : \A w \in vals : histo(w) <= histo(v)}
        IN  IF pop = {} THEN 0
            ELSE CHOOSE v \in best : \A w \in best : v >= w]

\* skimage.filters.rank.modal(image, footprint, mask): at EVERY pixel, the
\* histogram of the pixels under the footprint that are inside the image and
\* have mask > 0; the output is the lowest value with the highest count
\* (first bin with a strictly greater count), and 0 when the histogram is
\* empty.  The mask selects the neighbours counted, not the pixels written.
modal(image, footprint, mask) ==
    [p \in DOMAIN image |->
        LET pop == {q \in Under(image, p, footprint) : mask[q]}
            histo(v) == Cardinality({q \in pop : image[q] = v})
            vals == {image[q] : q \in pop}
            best == {v \in vals : \A w \in vals : histo(w) <= histo(v)}
        IN  IF pop = {} THEN 0
            ELSE CHOOSE v \in best : \A w \in best : v <= w]

\* skimage.morphology.binary_dilation(image, footprint): a pixel is set when
\* a set pixel of the image lies under the (symmetric) footprint centred on it
binary_dilation(image, footprint) ==
    [p \in DOMAIN image |-> \E q \in Under(image, p, footprint) : image[q]]

\* shapely buffer(d) on every feature: every cell is d metres nearer
buffer(gdf, d) ==
    {[f EXCEPT !.dist = [p \in DOMAIN f.dist |-> Max2(0, f.dist[p] - d)]] : f \in gdf}

\* rasterio.features.rasterize, which xr_rasterize calls with the geometries
\* of gdf, raises ValueError("No valid geometry objects found for rasterize")
\* when it is given no shape
NoShapes(gdf) == gdf = {}

\* deafrica_tools.spatial.xr_rasterize(gdf, da) of a gdf with a feature: 1
\* where a feature covers the cell, 0 elsewhere
xr_rasterize(gdf, da) ==
    [p \in DOMAIN da |-> IF \E f \in gdf : f.dist[p] = 0 THEN 1 ELSE 0]

\* numpy.nan, as a rational
NaN == <<0, 0>>

\* a raster tile gives, for every cell of the target grid, the source pixels
\* overlapping it, the nearest first
RECURSIVE SumSeq(_)
SumSeq(s) == IF s = <<>> THEN 0 ELSE Head(s) + SumSeq(Tail(s))

\* odc.algo.xr_reproject(src, geobox, resampling): "average" is the mean of
\* the overlapping source pixels, "nearest" the nearest source pixel
\* a target cell no source pixel overlaps holds NaN
xr_reproject(tile, resampling) ==
    [p \in DOMAIN tile |->
        IF tile[p] = <<>> THEN NaN
        ELSE IF resampling = "average" THEN <<SumSeq(tile[p]), Len(tile[p])>>
        ELSE <<tile[p][1], 1>>]

\* comparisons of a rational array element with an integer; every comparison
\* with NaN is False
LE(x, t) == x # NaN /\ x[1] <= t * x[2]
EQ(x, t) == x # NaN /\ x[1] = t * x[2]

----------------------------------------------------------------------------
(* The reclassification rules: numpy boolean-mask assignments *)

\* mutant: the elevation test is lost
WaterByHandIgnoringHand(orig, work, hand, river) ==
    [p \in DOMAIN work |->
        IF orig[p] = dict_map["Water body"] \/ river[p] = 1
        THEN dict_map["Water body"] ELSE work[p]]

\* mutant: the class is tested on the filtered raster
WaterByHandOnFiltered(orig, work, hand, river) ==
    [p \in DOMAIN work |->
        IF (work[p] = dict_map["Water body"] /\ LE(hand[p], HandMax)) \/ river[p] = 1
        THEN dict_map["Water body"] ELSE work[p]]

\* np_lc_map_postproc[((np_lc_map==Water body)&(np_hand<=45))
\*                    |(np_river_network_mask==1)] = Water body
WaterByHand(orig, work, hand, river) ==
    [p \in DOMAIN work |->
        IF (orig[p] = dict_map["Water body"] /\ LE(hand[p], HandMax)) \/ river[p] = 1
        THEN dict_map["Water body"] ELSE work[p]]

\* mutant: the mask value is written in place of the class code
WaterByIndexFlag(work, mndwi) ==
    [p \in DOMAIN work |-> IF mndwi[p] >= MNDWIMin THEN 1 ELSE work[p]]

\* mutant: > written for >=
WaterByIndexStrict(work, mndwi) ==
    [p \in DOMAIN work |->
        IF mndwi[p] > MNDWIMin THEN dict_map["Water body"] ELSE work[p]]

\* np_lc_map_postproc[np_MNDWI>=0] = Water body
WaterByIndex(work, mndwi) ==
    [p \in DOMAIN work |->
        IF mndwi[p] >= MNDWIMin THEN dict_map["Water body"] ELSE work[p]]

\* np_lc_map_postproc[(np_google_buildings_mask==1)|(np_wsf2019==built)] = Settlements
SettlementByFootprint(work, buildings, wsf, built) ==
    [p \in DOMAIN work |->
        IF EQ(buildings[p], 1) \/ EQ(wsf[p], built)
        THEN dict_map["Settlements"] ELSE work[p]]

\* np_lc_map_postproc[np_road_network_mask==1] = Settlements
SettlementByRoad(work, road) ==
    [p \in DOMAIN work |->
        IF road[p] = 1 THEN dict_map["Settlements"] ELSE work[p]]

\* urban_buffered = binary_dilation(np_lc_map==Settlements, disk(5))
UrbanBuffered(orig) ==
    binary_dilation([p \in DOMAIN orig |-> orig[p] = dict_map["Settlements"]],
                    UrbanFootprint)

\* mutant: | written for &
FloodedVegetationOr(orig, work) ==
    LET urban_buffered == UrbanBuffered(orig)
    IN  [p \in DOMAIN work |->
            IF urban_buffered[p] \/
               orig[p] = dict_map["Aquatic or regularly flooded herbaceous vegetation"]
            THEN dict_map["Field crops"] ELSE work[p]]

\* mutant: the settlements of the working raster are dilated
FloodedVegetationOnWorking(orig, work) ==
    LET urban_buffered == UrbanBuffered(work)
    IN  [p \in DOMAIN work |->
            IF urban_buffered[p] /\
               orig[p] = dict_map["Aquatic or regularly flooded herbaceous vegetation"]
            THEN dict_map["Field crops"] ELSE work[p]]

\* np_lc_map_postproc[(urban_buffered==1)&(np_lc_map==flooded vegetation)] = Field crops
FloodedVegetation(orig, work) ==
    LET urban_buffered == UrbanBuffered(orig)
    IN  [p \in DOMAIN work |->
            IF urban_buffered[p] /\
               orig[p] = dict_map["Aquatic or regularly flooded herbaceous vegetation"]
            THEN dict_map["Field crops"] ELSE work[p]]

\* mutant: the cells outside the condition are reset to the pre-filter value
MangroveByCoastResetting(orig, work, shore) ==
    [p \in DOMAIN work |->
        IF shore[p] = 0 /\ orig[p] = dict_map["Mangrove"]
        THEN dict_map["Forest plantations"] ELSE orig[p]]

\* mutant: the class is tested on the working raster
MangroveByCoastOnWorking(orig, work, shore) ==
    [p \in DOMAIN work |->
        IF shore[p] = 0 /\ work[p] = dict_map["Mangrove"]
        THEN dict_map["Forest plantations"] ELSE work[p]]

\* mutant: the class test is lost
MangroveByCoastAnyClass(orig, work, shore) ==
    [p \in DOMAIN work |->
        IF shore[p] = 0 THEN dict_map["Forest plantations"] ELSE work[p]]

\* np_lc_map_postproc[(np_shorelines_2021_mask==0)&(np_lc_map==Mangrove)] = Forest plantations
MangroveByCoast(orig, work, shore) ==
    [p \in DOMAIN work |->
        IF shore[p] = 0 /\ orig[p] = dict_map["Mangrove"]
        THEN dict_map["Forest plantations"] ELSE work[p]]

\* mutant: the first column is cut off before filtering
ModeFilterCropped(orig) ==
    LET part == [p \in {q \in DOMAIN orig : q[2] > 1} |-> orig[p]]
    IN  modal(part, ModalFootprint, [p \in DOMAIN part |-> part[p] # 0])

\* mutant: disk(1) for disk(2)
ModeFilterSmallDisk(orig) ==
    modal(orig, disk(1), [p \in DOMAIN orig |-> orig[p] # 0])

\* mutant: the mask argument is lost
ModeFilterNoMask(orig) ==
    modal(orig, ModalFootprint, [p \in DOMAIN orig |-> TRUE])

\* modal(np_lc_map, footprint=disk(2), mask=np_lc_map!=0)
ModeFilter(orig) ==
    modal(orig, ModalFootprint, [p \in DOMAIN orig |-> orig[p] # 0])

\* mutant: every road is buffered, whatever its surface
SelectRoadsAnySurface(gdf) == buffer(gdf, RoadBufferM)

\* road_network.loc[road_network['surface'].isin([...])], then buffer(10)
SelectRoads(gdf) ==
    buffer({f \in gdf : f.surface \in RoadSurfaces}, RoadBufferM)

\* river_network.loc[river_network['waterway'].isin(['canal','river'])]
SelectRivers(gdf) == {f \in gdf : f.waterway \in Waterways}

\* shorelines_gdf[shorelines_gdf['year']=='2021']
SelectShorelines(gdf) == {f \in gdf : f.year = ShoreYear}

\* xr_rasterize of the coastline, then xr_reproject(..., "nearest") onto the
\* same geobox
ShoreMask(gdf, da) ==
    LET mask == xr_rasterize(gdf, da)
        tile == xr_reproject([p \in DOMAIN mask |-> <<mask[p]>>], "nearest")
    IN  [p \in DOMAIN tile |-> tile[p][1]]

\* training_data.loc[training_data[class_attr] == a | ..., class_attr] = to
Reassign(col, from, to) ==
    [r \in DOMAIN col |-> IF col[r] \in from THEN to ELSE col[r]]

\* mutant: Miombo open is merged into Mopane
MergeMiomboIntoMopane(col) ==
    LET d == dict_map_training
        s1 == Reassign(col, {d["Shrubland"]}, d["Grassland"])
        s2 == Reassign(s1, {d["Aquatic or regularly flooded herbaceous vegetation"]},
                       d["Aquatic or regularly flooded shrublands"])
        s3 == Reassign(s2, {d["Bare rocks"]}, d["Bare soils"])
        s4 == Reassign(s3, {d["Gallery forest"],
                            d["Open broadleaved (Semi-) evergreen mountaineous forest"],
                            d["Coastal open woody vegetation"]},
                       d["Closed broadleaved (Semi-) evergreen mountaineous forest"])
        s5 == Reassign(s4, {d["Mopane open"]}, d["Mopane"])
    IN  Reassign(s5, {d["Miombo open"]}, d["Mopane"])

\* the class merging cell: six assignments, one after the other
merge_classes(col) ==
    LET d == dict_map_training
        s1 == Reassign(col, {d["Shrubland"]}, d["Grassland"])
        s2 == Reassign(s1, {d["Aquatic or regularly flooded herbaceous vegetation"]},
                       d["Aquatic or regularly flooded shrublands"])
        s3 == Reassign(s2, {d["Bare rocks"]}, d["Bare soils"])
        s4 == Reassign(s3, {d["Gallery forest"],
                            d["Open broadleaved (Semi-) evergreen mountaineous forest"],
                            d["Coastal open woody vegetation"]},
                       d["Closed broadleaved (Semi-) evergreen mountaineous forest"])
        s5 == Reassign(s4, {d["Mopane open"]}, d["Mopane"])
    IN  Reassign(s5, {d["Miombo open"]},
                 d["Broadleaved (Semi-) deciduous closed forest"])

----------------------------------------------------------------------------
(* The inputs the notebooks read *)

\* Data/train_poly_*.shp: the class label of every record, one of the 21 classes
TrainingFiles ==
    [1..MaxRecords -> {dict_map_training[k] : k \in DOMAIN dict_map_training}]


Cells == {1} \X (1..Width)

\* the auxiliary layers vary at this cell and are neutral at the others
Focus == <<1, 1>>

\* the values of the focus cell of a prediction map: no-data, class codes the
\* rules test, and a value that is no class code
InputCodes == {0, 41, 44, 51, 70, 99}

\* the values of the other cells
NeighbourCodes == {0, 41, 51}


At(v, neutral) == [p \in Cells |-> IF p = Focus THEN v ELSE neutral]

\* Results/Land_cover_prediction_*.tif
MapFiles ==
    {m \in [Cells -> InputCodes] : \A p \in Cells \ {Focus} : m[p] \in NeighbourCodes}

\* Data/hand_*: source pixels of the height above nearest drainage
HandTiles == {At(<<45>>, <<50>>), At(<<50>>, <<50>>)}

\* Data/GoogleBuildingLayer_*: 0/1 source pixels; a target cell may overlap
\* two source pixels
BuildingTiles == {At(<<0>>, <<0>>), At(<<1>>, <<0>>), At(<<1, 0>>, <<0>>)}

\* Data/WSF2019_*: 0, 1 or 255
WsfTiles == {At(<<0>>, <<0>>), At(<<1>>, <<0>>), At(<<255>>, <<0>>)}

\* the auxiliary rasters gdalwarp clips to the extent of the prediction map
Layers == {"buildings", "hand", "wsf"}

\* subprocess.run(['gdalwarp', '-cutline', ...]) without check: the tile
\* covers the extent ("full"), is written with the part the source does not
\* cover filled ("gaps"), or is not written ("none"); no outcome raises
ClipOutcomes == {"full", "gaps", "none"}

\* a tile with a gap at the focus cell: no source pixel there, or the fill
\* value 0
GapTiles(neutral) == {At(<<>>, neutral), At(<<0>>, neutral)}

\* the contents a clipped tile can have
Tiles(layer) ==
    CASE layer = "hand" ->
            IF clipped[layer] = "gaps" THEN GapTiles(<<50>>) ELSE HandTiles
      [] layer = "buildings" ->
            IF clipped[layer] = "gaps" THEN GapTiles(<<0>>) ELSE BuildingTiles
      [] layer = "wsf" ->
            IF clipped[layer] = "gaps" THEN GapTiles(<<0>>) ELSE WsfTiles

\* xr.open_dataset(tile, engine="rasterio") raises when the file is not there
Missing(layer) == clipped[layer] = "none"

\* the filter-only specification: a two-row raster
FilterGrid == (1..2) \X (1..FilterCols)
FilterCodes == {0, 44, 51}

\* MNDWI of the annual geomedian, in tenths
MNDWIArrays == {At(-1, -1), At(0, -1)}

\* a feature 1 km from every cell
Far == [p \in Cells |-> 1000]

\* Data/hotosm_moz_roads_lines_filtered.shp: a road 5 m from the focus cell,
\* with or without a paved road far from the raster
RoadFiles ==
    {{[surface |-> "asphalt", dist |-> At(5, 1000)], [surface |-> "paved", dist |-> Far]},
     {[surface |-> "dirt", dist |-> At(5, 1000)], [surface |-> "paved", dist |-> Far]},
     {[surface |-> "dirt", dist |-> At(5, 1000)]}}

\* Data/hotosm_moz_waterways_lines_filtered.shp: a waterway across the focus
\* cell, with or without a canal far from the raster
RiverFiles ==
    {{[waterway |-> "river", dist |-> At(0, 1000)]},
     {[waterway |-> "stream", dist |-> At(0, 1000)], [waterway |-> "canal", dist |-> Far]},
     {[waterway |-> "stream", dist |-> At(0, 1000)]}}

\* get_coastlines(...): the 2021 shoreline 25 km or 75 km from the focus cell
\* and 25 km from the others, and the 2020 shoreline across every cell
Coastlines ==
    {{[year |-> "2021", dist |-> At(d, 25000)],
      [year |-> "2020", dist |-> At(0, 0)]} : d \in {25000, 75000}}

\* reading file name: one of the contents S, the same at every read
Read(name, S, v) ==
    /\ v \in S
    /\ name \in DOMAIN files => v = files[name]

Passes == {"demo", "batch", "district"}

\* the rasters of one testing location: prediction map and auxiliary tiles
LocationInputs ==
    {[map |-> m, hand |-> h, mndwi |-> At(-1, -1), buildings |-> At(<<0>>, <<0>>),
      wsf |-> w] :
        m \in {At(70, 51), At(44, 41), At(41, 51)}, h \in HandTiles,
        w \in {At(<<0>>, <<0>>), At(<<1>>, <<0>>)}}

\* lc_map=prediction_maps[i], hand_raster_tiles[i], ...: the rasters the loop
\* body reads in iteration n
\* mutant: every iteration reads the rasters of the first location
LoopInputsFirst(locs, n) == locs[1]

LoopInputs(locs, n) == locs[n]

----------------------------------------------------------------------------
(* The passes over one raster *)

\* one entry of the history: the working raster after a step
Did(step, raster) == [step |-> step, raster |-> raster]

\* the working raster a pass ends with
Final(pass) == pass[Len(pass)].raster

\* the batch loop body: every working raster in order
BatchPass(orig, hand, river, mndwi, buildings, wsf, road, shore, built) ==
    LET w1 == ModeFilter(orig)
        w2 == WaterByHand(orig, w1, hand, river)
        w3 == WaterByIndex(w2, mndwi)
        w4 == SettlementByFootprint(w3, buildings, wsf, built)
        w5 == FloodedVegetation(orig, w4)
        w6 == SettlementByRoad(w5, road)
        w7 == MangroveByCoast(orig, w6, shore)
    IN  <<Did("filter", w1), Did("water", w2), Did("mndwi", w3),
          Did("settlement", w4), Did("vegetation", w5), Did("road", w6),
          Did("mangrove", w7)>>

\* the district cell up to the river mask
DistrictUntilWater(orig) ==
    <<Did("filter0", ModeFilter(orig)), Did("filter", ModeFilter(orig))>>

\* the district cell up to the opening of the buildings tile
DistrictUntilBuildings(orig, hand, river, mndwi) ==
    LET w1 == ModeFilter(orig)
        w2 == WaterByHand(orig, w1, hand, river)
        w3 == WaterByIndex(w2, mndwi)
    IN  DistrictUntilWater(orig) \o <<Did("water", w2), Did("mndwi", w3)>>

\* the district cell up to the road mask
DistrictUntilRoad(orig, hand, river, mndwi, buildings, wsf) ==
    LET w3 == Final(DistrictUntilBuildings(orig, hand, river, mndwi))
        w4 == SettlementByFootprint(w3, buildings, wsf, DistrictBuiltValue)
        w5 == FloodedVegetation(orig, w4)
    IN  DistrictUntilBuildings(orig, hand, river, mndwi) \o
        <<Did("settlement", w4), Did("vegetation", w5)>>

\* mutant: the settlement rule as the demonstration cell has it
DistrictPassDemoSentinel(orig, hand, river, mndwi, buildings, wsf, road, shore) ==
    LET w0 == ModeFilter(orig)
        w1 == ModeFilter(orig)
        w2 == WaterByHand(orig, w1, hand, river)
        w3 == WaterByIndex(w2, mndwi)
        w4 == SettlementByFootprint(w3, buildings, wsf, DemoBuiltValue)
        w5 == FloodedVegetation(orig, w4)
        w6 == SettlementByRoad(w5, road)
        w7 == MangroveByCoast(orig, w6, shore)
    IN  <<Did("filter0", w0), Did("filter", w1), Did("water", w2),
          Did("mndwi", w3), Did("settlement", w4), Did("vegetation", w5),
          Did("road", w6), Did("mangrove", w7)>>

\* the district cell: the filter is computed twice, then the same statements
DistrictPass(orig, hand, river, mndwi, buildings, wsf, road, shore) ==
    LET w0 == ModeFilter(orig)
        w1 == ModeFilter(orig)
        w2 == WaterByHand(orig, w1, hand, river)
        w3 == WaterByIndex(w2, mndwi)
        w4 == SettlementByFootprint(w3, buildings, wsf, DistrictBuiltValue)
        w5 == FloodedVegetation(orig, w4)
        w6 == SettlementByRoad(w5, road)
        w7 == MangroveByCoast(orig, w6, shore)
    IN  <<Did("filter0", w0), Did("filter", w1), Did("water", w2),
          Did("mndwi", w3), Did("settlement", w4), Did("vegetation", w5),
          Did("road", w6), Did("mangrove", w7)>>

----------------------------------------------------------------------------
\* the names the post-processing cells never assign
others == <<training_data, clipped, locations, prediction_maps_postproc, loc>>

Init ==
    /\ nb \in {"testing", "district"}
    /\ pc = "load"
    /\ files = <<>>
    /\ road_network = None
    /\ river_network = None
    /\ shorelines_gdf_2021 = None
    /\ lc_map = None
    /\ np_lc_map = None
    /\ np_lc_map_postproc = None
    /\ np_hand = None
    /\ np_river_network_mask = None
    /\ np_MNDWI = None
    /\ np_google_buildings_mask = None
    /\ np_wsf2019 = None
    /\ np_road_network_mask = None
    /\ np_shorelines_2021_mask = None
    /\ lc_map_postproc = None
    /\ after = [k \in Passes |-> <<>>]
    /\ training_data = None
    /\ clipped = [l \in Layers |-> "full"]
    /\ locations = None
    /\ prediction_maps_postproc = None
    /\ loc = None

arrays == <<np_lc_map, np_lc_map_postproc, np_hand, np_river_network_mask,
            np_MNDWI, np_google_buildings_mask, np_wsf2019, np_road_network_mask,
            np_shorelines_2021_mask>>

vectors == <<road_network, river_network, shorelines_gdf_2021>>

Record(pass, step, raster) ==
    [after EXCEPT ![pass] = Append(@, Did(step, raster))]

\* rioxarray.open_rasterio(prediction map).astype(np.uint8).squeeze()
LoadMap ==
    /\ pc = "load"
    /\ \E m \in MapFiles :
          /\ Read("map", MapFiles, m)
          /\ files' = ("map" :> m) @@ files
          /\ lc_map' = [p \in DOMAIN m |-> m[p] % 256]
    /\ pc' = "roads"
    /\ UNCHANGED <<nb, arrays, vectors, lc_map_postproc, after>>
    /\ UNCHANGED others

\* read the road network, select by surface, buffer by 10 m
LoadRoads ==
    /\ pc = "roads"
    /\ \E g \in RoadFiles :
          /\ Read("roads", RoadFiles, g)
          /\ files' = ("roads" :> g) @@ files
          /\ road_network' = SelectRoads(g)
    /\ pc' = "rivers"
    /\ UNCHANGED <<nb, arrays, river_network, shorelines_gdf_2021, lc_map,
                   lc_map_postproc, after>>
    /\ UNCHANGED others

\* read the river network, select by waterway
LoadRivers ==
    /\ pc = "rivers"
    /\ \E g \in RiverFiles :
          /\ Read("rivers", RiverFiles, g)
          /\ files' = ("rivers" :> g) @@ files
          /\ river_network' = SelectRivers(g)
    /\ pc' = IF nb = "testing" THEN "filter" ELSE "coastline"
    /\ UNCHANGED <<nb, arrays, road_network, shorelines_gdf_2021, lc_map,
                   lc_map_postproc, after>>
    /\ UNCHANGED others

\* mutant: the filtered array is stored under both names
DemoFilterOverwriting ==
    /\ nb = "testing" /\ pc = "filter"
    /\ np_lc_map' = ModeFilter(lc_map)
    /\ np_lc_map_postproc' = np_lc_map'
    /\ after' = Record("demo", "filter", np_lc_map_postproc')
    /\ pc' = "water"
    /\ UNCHANGED <<nb, files, vectors, lc_map, np_hand, np_river_network_mask,
                   np_MNDWI, np_google_buildings_mask, np_wsf2019,
                   np_road_network_mask, np_shorelines_2021_mask, lc_map_postproc>>
    /\ UNCHANGED others

\* testing notebook, cell "Morphological filtering"
DemoFilter ==
    /\ nb = "testing" /\ pc = "filter"
    /\ np_lc_map' = lc_map
    /\ np_lc_map_postproc' = ModeFilter(np_lc_map')
    /\ after' = Record("demo", "filter", np_lc_map_postproc')
    /\ pc' = "water"
    /\ UNCHANGED <<nb, files, vectors, lc_map, np_hand, np_river_network_mask,
                   np_MNDWI, np_google_buildings_mask, np_wsf2019,
                   np_road_network_mask, np_shorelines_2021_mask, lc_map_postproc>>
    /\ UNCHANGED others

\* testing notebook, cell "Reclassify Water body": hand and rivers
DemoWater ==
    /\ nb = "testing" /\ pc = "water"
    /\ ~Missing("hand") /\ ~NoShapes(river_network)
    /\ \E t \in Tiles("hand") :
          /\ Read("hand", Tiles("hand"), t)
          /\ files' = ("hand" :> t) @@ files
          /\ np_hand' = xr_reproject(t, "average")
    /\ np_river_network_mask' = xr_rasterize(river_network, lc_map)
    /\ np_lc_map_postproc' =
          WaterByHand(np_lc_map, np_lc_map_postproc, np_hand', np_river_network_mask')
    /\ after' = Record("demo", "water", np_lc_map_postproc')
    /\ pc' = "mndwi"
    /\ UNCHANGED <<nb, vectors, lc_map, np_lc_map, np_MNDWI, np_google_buildings_mask,
                   np_wsf2019, np_road_network_mask, np_shorelines_2021_mask,
                   lc_map_postproc>>
    /\ UNCHANGED others

\* the same cell when the hand tile is missing (xr.open_dataset raises), or
\* else no waterway was selected: the hand tile is read and reprojected, then
\* xr_rasterize raises
DemoWaterRaises ==
    /\ nb = "testing" /\ pc = "water"
    /\ Missing("hand") \/ NoShapes(river_network)
    /\ IF Missing("hand")
       THEN UNCHANGED <<files, np_hand>>
       ELSE \E t \in Tiles("hand") :
               /\ Read("hand", Tiles("hand"), t)
               /\ files' = ("hand" :> t) @@ files
               /\ np_hand' = xr_reproject(t, "average")
    /\ pc' = "error"
    /\ UNCHANGED <<nb, vectors, lc_map, np_lc_map, np_lc_map_postproc,
                   np_river_network_mask, np_MNDWI, np_google_buildings_mask,
                   np_wsf2019, np_road_network_mask, np_shorelines_2021_mask,
                   lc_map_postproc, after>>
    /\ UNCHANGED others

\* testing notebook, cells computing MNDWI and reassigning water
DemoIndex ==
    /\ nb = "testing" /\ pc = "mndwi"
    /\ \E a \in MNDWIArrays :
          /\ Read("mndwi", MNDWIArrays, a)
          /\ files' = ("mndwi" :> a) @@ files
          /\ np_MNDWI' = a
    /\ np_lc_map_postproc' = WaterByIndex(np_lc_map_postproc, np_MNDWI')
    /\ after' = Record("demo", "mndwi", np_lc_map_postproc')
    /\ pc' = "settlement"
    /\ UNCHANGED <<nb, vectors, lc_map, np_lc_map, np_hand, np_river_network_mask,
                   np_google_buildings_mask, np_wsf2019, np_road_network_mask,
                   np_shorelines_2021_mask, lc_map_postproc>>
    /\ UNCHANGED others

\* testing notebook, cell "Reclassify Settlements": buildings and WSF 2019
DemoSettlement ==
    /\ nb = "testing" /\ pc = "settlement"
    /\ ~Missing("buildings") /\ ~Missing("wsf")
    /\ \E b \in Tiles("buildings"), w \in Tiles("wsf") :
          /\ Read("buildings", Tiles("buildings"), b)
          /\ Read("wsf", Tiles("wsf"), w)
          /\ files' = ("buildings" :> b) @@ ("wsf" :> w) @@ files
          /\ np_google_buildings_mask' = xr_reproject(b, "average")
          /\ np_wsf2019' = xr_reproject(w, "nearest")
    /\ np_lc_map_postproc' =
          SettlementByFootprint(np_lc_map_postproc, np_google_buildings_mask',
                                np_wsf2019', DemoBuiltValue)
    /\ after' = Record("demo", "settlement", np_lc_map_postproc')
    /\ pc' = "road"
    /\ UNCHANGED <<nb, vectors, lc_map, np_lc_map, np_hand, np_river_network_mask,
                   np_MNDWI, np_road_network_mask, np_shorelines_2021_mask,
                   lc_map_postproc>>
    /\ UNCHANGED others

\* the same cell when the buildings tile is missing, or else the WSF tile is:
\* xr.open_dataset raises, the second after the buildings mask is made
DemoSettlementRaises ==
    /\ nb = "testing" /\ pc = "settlement"
    /\ Missing("buildings") \/ Missing("wsf")
    /\ IF Missing("buildings")
       THEN UNCHANGED <<files, np_google_buildings_mask>>
       ELSE \E b \in Tiles("buildings") :
               /\ Read("buildings", Tiles("buildings"), b)
               /\ files' = ("buildings" :> b) @@ files
               /\ np_google_buildings_mask' = xr_reproject(b, "average")
    /\ pc' = "error"
    /\ UNCHANGED <<nb, vectors, lc_map, np_lc_map, np_lc_map_postproc, np_hand,
                   np_river_network_mask, np_MNDWI, np_wsf2019,
                   np_road_network_mask, np_shorelines_2021_mask,
                   lc_map_postproc, after>>
    /\ UNCHANGED others

\* testing notebook, cell reclassifying pixels on the road network
DemoRoad ==
    /\ nb = "testing" /\ pc = "road"
    /\ ~NoShapes(road_network)
    /\ np_road_network_mask' = xr_rasterize(road_network, lc_map)
    /\ np_lc_map_postproc' = SettlementByRoad(np_lc_map_postproc, np_road_network_mask')
    /\ after' = Record("demo", "road", np_lc_map_postproc')
    /\ pc' = "vegetation"
    /\ UNCHANGED <<nb, files, vectors, lc_map, np_lc_map, np_hand,
                   np_river_network_mask, np_MNDWI, np_google_buildings_mask,
                   np_wsf2019, np_shorelines_2021_mask, lc_map_postproc>>
    /\ UNCHANGED others

\* the same cell when no road was selected: xr_rasterize raises
DemoRoadRaises ==
    /\ nb = "testing" /\ pc = "road"
    /\ NoShapes(road_network)
    /\ pc' = "error"
    /\ UNCHANGED <<nb, files, vectors, lc_map, arrays, lc_map_postproc, after>>
    /\ UNCHANGED others

\* testing notebook, cell "Reclassify regularly flooded vegetation"
DemoVegetation ==
    /\ nb = "testing" /\ pc = "vegetation"
    /\ np_lc_map_postproc' = FloodedVegetation(np_lc_map, np_lc_map_postproc)
    /\ after' = Record("demo", "vegetation", np_lc_map_postproc')
    /\ pc' = "mangrove"
    /\ UNCHANGED <<nb, files, vectors, lc_map, np_lc_map, np_hand,
                   np_river_network_mask, np_MNDWI, np_google_buildings_mask,
                   np_wsf2019, np_road_network_mask, np_shorelines_2021_mask,
                   lc_map_postproc>>
    /\ UNCHANGED others

\* testing notebook, cell "Reclassify Mangrove": query the coastline, select
\* 2021, buffer it in place by 50 km, rasterise, apply the rule; the plot
\* cell after it reconstructs the DataArray
DemoMangrove ==
    /\ nb = "testing" /\ pc = "mangrove"
    /\ \E g \in Coastlines :
          /\ Read("coast", Coastlines, g)
          /\ files' = ("coast" :> g) @@ files
          /\ shorelines_gdf_2021' = buffer(SelectShorelines(g), ShoreBufferM)
    /\ np_shorelines_2021_mask' = ShoreMask(shorelines_gdf_2021', lc_map)
    /\ np_lc_map_postproc' =
          MangroveByCoast(np_lc_map, np_lc_map_postproc, np_shorelines_2021_mask')
    /\ after' = Record("demo", "mangrove", np_lc_map_postproc')
    /\ lc_map_postproc' = np_lc_map_postproc'
    /\ pc' = "batch"
    /\ UNCHANGED <<nb, road_network, river_network, lc_map, np_lc_map, np_hand,
                   np_river_network_mask, np_MNDWI, np_google_buildings_mask,
                   np_wsf2019, np_road_network_mask>>
    /\ UNCHANGED others

\* testing notebook, cell "Process all testing locations": the loop body for
\* the location the cells above processed.  The tiles are read again; the
\* road, river and coastline layers are the ones the cells above left.  The
\* cells above opened every tile and rasterised both layers, so no tile is
\* missing and no layer is empty here.
BatchIteration ==
    /\ nb = "testing" /\ pc = "batch"
    /\ \E t \in Tiles("hand"), a \in MNDWIArrays, b \in Tiles("buildings"),
          w \in Tiles("wsf") :
          /\ Read("hand", Tiles("hand"), t)
          /\ Read("mndwi", MNDWIArrays, a)
          /\ Read("buildings", Tiles("buildings"), b)
          /\ Read("wsf", Tiles("wsf"), w)
          /\ files' = ("hand" :> t) @@ ("mndwi" :> a) @@ ("buildings" :> b) @@
                      ("wsf" :> w) @@ files
          /\ np_hand' = xr_reproject(t, "average")
          /\ np_MNDWI' = a
          /\ np_google_buildings_mask' = xr_reproject(b, "average")
          /\ np_wsf2019' = xr_reproject(w, "nearest")
    /\ np_lc_map' = lc_map
    /\ np_river_network_mask' = xr_rasterize(river_network, lc_map)
    /\ np_road_network_mask' = xr_rasterize(road_network, lc_map)
    /\ np_shorelines_2021_mask' = ShoreMask(shorelines_gdf_2021, lc_map)
    /\ LET pass == BatchPass(np_lc_map', np_hand', np_river_network_mask', np_MNDWI',
                             np_google_buildings_mask', np_wsf2019',
                             np_road_network_mask', np_shorelines_2021_mask',
                             BatchBuiltValue)
       IN  /\ np_lc_map_postproc' = Final(pass)
           /\ lc_map_postproc' = Final(pass)
           /\ after' = [after EXCEPT !["batch"] = pass]
    /\ pc' = "done"
    /\ UNCHANGED <<nb, vectors, lc_map>>
    /\ UNCHANGED others

\* district notebook, cell "Query and buffer coastline": query, select 2021
LoadCoastline ==
    /\ nb = "district" /\ pc = "coastline"
    /\ \E g \in Coastlines :
          /\ Read("coast", Coastlines, g)
          /\ files' = ("coast" :> g) @@ files
          /\ shorelines_gdf_2021' = SelectShorelines(g)
    /\ pc' = "postprocess"
    /\ UNCHANGED <<nb, arrays, road_network, river_network, lc_map,
                   lc_map_postproc, after>>
    /\ UNCHANGED others

\* the first statement of the district cell that raises, if one does
DistrictFailure ==
    IF Missing("hand") THEN "hand"
    ELSE IF NoShapes(river_network) THEN "river"
    ELSE IF Missing("buildings") THEN "buildings"
    ELSE IF Missing("wsf") THEN "wsf"
    ELSE IF NoShapes(road_network) THEN "road"
    ELSE "none"

\* district notebook, cell "Morphological filtering and apply all rules"
DistrictCell ==
    /\ nb = "district" /\ pc = "postprocess"
    /\ DistrictFailure = "none"
    /\ \E t \in Tiles("hand"), a \in MNDWIArrays, b \in Tiles("buildings"),
          w \in Tiles("wsf") :
          /\ Read("hand", Tiles("hand"), t)
          /\ Read("mndwi", MNDWIArrays, a)
          /\ Read("buildings", Tiles("buildings"), b)
          /\ Read("wsf", Tiles("wsf"), w)
          /\ files' = ("hand" :> t) @@ ("mndwi" :> a) @@ ("buildings" :> b) @@
                      ("wsf" :> w) @@ files
          /\ np_hand' = xr_reproject(t, "average")
          /\ np_MNDWI' = a
          /\ np_google_buildings_mask' = xr_reproject(b, "average")
          /\ np_wsf2019' = xr_reproject(w, "nearest")
    /\ np_lc_map' = lc_map
    /\ np_river_network_mask' = xr_rasterize(river_network, lc_map)
    /\ np_road_network_mask' = xr_rasterize(road_network, lc_map)
    /\ shorelines_gdf_2021' = buffer(shorelines_gdf_2021, ShoreBufferM)
    /\ np_shorelines_2021_mask' = ShoreMask(shorelines_gdf_2021', lc_map)
    /\ LET pass == DistrictPass(np_lc_map', np_hand', np_river_network_mask',
                                np_MNDWI', np_google_buildings_mask', np_wsf2019',
                                np_road_network_mask', np_shorelines_2021_mask')
       IN  /\ np_lc_map_postproc' = Final(pass)
           /\ lc_map_postproc' = Final(pass)
           /\ after' = [after EXCEPT !["district"] = pass]
    /\ pc' = "done"
    /\ UNCHANGED <<nb, road_network, river_network, lc_map>>
    /\ UNCHANGED others

\* the same cell when a statement raises: the statements before it have run
DistrictCellRaises ==
    /\ nb = "district" /\ pc = "postprocess"
    /\ DistrictFailure # "none"
    /\ LET at == DistrictFailure
           has_hand == at \notin {"hand"}
           has_river == at \notin {"hand", "river"}
           has_buildings == at \in {"wsf", "road"}
           has_wsf == at = "road"
       IN  \E t \in (IF has_hand THEN Tiles("hand") ELSE {None}),
              a \in (IF has_river THEN MNDWIArrays ELSE {None}),
              b \in (IF has_buildings THEN Tiles("buildings") ELSE {None}),
              w \in (IF has_wsf THEN Tiles("wsf") ELSE {None}) :
              /\ has_hand => Read("hand", Tiles("hand"), t)
              /\ has_river => Read("mndwi", MNDWIArrays, a)
              /\ has_buildings => Read("buildings", Tiles("buildings"), b)
              /\ has_wsf => Read("wsf", Tiles("wsf"), w)
              /\ files' = (IF has_hand THEN "hand" :> t ELSE <<>>) @@
                          (IF has_river THEN "mndwi" :> a ELSE <<>>) @@
                          (IF has_buildings THEN "buildings" :> b ELSE <<>>) @@
                          (IF has_wsf THEN "wsf" :> w ELSE <<>>) @@ files
              /\ np_hand' = IF has_hand THEN xr_reproject(t, "average") ELSE np_hand
              /\ np_river_network_mask' =
                    IF has_river THEN xr_rasterize(river_network, lc_map)
                    ELSE np_river_network_mask
              /\ np_MNDWI' = IF has_river THEN a ELSE np_MNDWI
              /\ np_google_buildings_mask' =
                    IF has_buildings THEN xr_reproject(b, "average")
                    ELSE np_google_buildings_mask
              /\ np_wsf2019' = IF has_wsf THEN xr_reproject(w, "nearest") ELSE np_wsf2019
              /\ after' = [after EXCEPT !["district"] =
                    IF ~has_river THEN DistrictUntilWater(lc_map)
                    ELSE IF ~has_wsf
                    THEN DistrictUntilBuildings(lc_map, np_hand',
                                                np_river_network_mask', np_MNDWI')
                    ELSE DistrictUntilRoad(lc_map, np_hand', np_river_network_mask',
                                           np_MNDWI', np_google_buildings_mask',
                                           np_wsf2019')]
    /\ np_lc_map' = lc_map
    /\ np_lc_map_postproc' = Final(after'["district"])
    /\ pc' = "error"
    /\ UNCHANGED <<nb, vectors, lc_map, np_road_network_mask,
                   np_shorelines_2021_mask, lc_map_postproc>>
    /\ UNCHANGED others

\* the district cell executed a second time, the cells above it not run
\* again: every tile is read again from the same file, the masks are
\* rasterised again, and the coastline, already buffered, is buffered again
DistrictCellAgain ==
    /\ nb = "district" /\ pc = "done"
    /\ np_lc_map' = lc_map
    /\ np_hand' = xr_reproject(files["hand"], "average")
    /\ np_MNDWI' = files["mndwi"]
    /\ np_google_buildings_mask' = xr_reproject(files["buildings"], "average")
    /\ np_wsf2019' = xr_reproject(files["wsf"], "nearest")
    /\ np_river_network_mask' = xr_rasterize(river_network, lc_map)
    /\ np_road_network_mask' = xr_rasterize(road_network, lc_map)
    /\ shorelines_gdf_2021' = buffer(shorelines_gdf_2021, ShoreBufferM)
    /\ np_shorelines_2021_mask' = ShoreMask(shorelines_gdf_2021', lc_map)
    /\ LET pass == DistrictPass(np_lc_map', np_hand', np_river_network_mask',
                                np_MNDWI', np_google_buildings_mask', np_wsf2019',
                                np_road_network_mask', np_shorelines_2021_mask')
       IN  /\ np_lc_map_postproc' = Final(pass)
           /\ lc_map_postproc' = Final(pass)
           /\ after' = [after EXCEPT !["district"] = @ \o pass]
    /\ pc' = "rerun"
    /\ UNCHANGED <<nb, files, road_network, river_network, lc_map>>
    /\ UNCHANGED others

Next ==
    \/ LoadMap
    \/ LoadRoads
    \/ LoadRivers
    \/ DemoFilter
    \/ DemoWater
    \/ DemoWaterRaises
    \/ DemoIndex
    \/ DemoSettlement
    \/ DemoRoad
    \/ DemoRoadRaises
    \/ DemoVegetation
    \/ DemoMangrove
    \/ BatchIteration
    \/ LoadCoastline
    \/ DistrictCell
    \/ DistrictCellRaises

Spec == Init /\ [][Next]_vars

\* runs in which gdalwarp may have left any auxiliary tile with gaps or
\* unwritten, on one prediction map, road file, waterway file, water index
\* and coastline
InitCoverage ==
    /\ nb \in {"testing", "district"}
    /\ pc = "load"
    /\ files = ("map" :> At(70, 51)) @@ ("mndwi" :> At(-1, -1)) @@
               ("roads" :> CHOOSE g \in RoadFiles :
                              \E f \in g : f.surface = "asphalt") @@
               ("rivers" :> CHOOSE g \in RiverFiles :
                               \E f \in g : f.waterway = "river") @@
               ("coast" :> CHOOSE g \in Coastlines :
                              \E f \in g : f.dist[Focus] > ShoreBufferM)
    /\ clipped \in [Layers -> ClipOutcomes]
    /\ locations = None
    /\ prediction_maps_postproc = None
    /\ loc = None
    /\ road_network = None
    /\ river_network = None
    /\ shorelines_gdf_2021 = None
    /\ lc_map = None
    /\ np_lc_map = None
    /\ np_lc_map_postproc = None
    /\ np_hand = None
    /\ np_river_network_mask = None
    /\ np_MNDWI = None
    /\ np_google_buildings_mask = None
    /\ np_wsf2019 = None
    /\ np_road_network_mask = None
    /\ np_shorelines_2021_mask = None
    /\ lc_map_postproc = None
    /\ after = [k \in Passes |-> <<>>]
    /\ training_data = None

NextCoverage ==
    \/ LoadMap
    \/ LoadRoads
    \/ LoadRivers
    \/ DemoFilter
    \/ DemoWater
    \/ DemoWaterRaises
    \/ DemoIndex
    \/ DemoSettlement
    \/ DemoSettlementRaises
    \/ DemoRoad
    \/ DemoVegetation
    \/ DemoMangrove
    \/ BatchIteration
    \/ LoadCoastline
    \/ DistrictCell
    \/ DistrictCellRaises

SpecCoverage == InitCoverage /\ [][NextCoverage]_vars

\* testing notebook, cell "Process all testing locations": one iteration of
\* the loop, on the rasters of location loc and the road, river and coastline
\* layers the cells above left
LoopIteration ==
    /\ nb = "testing" /\ pc = "batch"
    /\ LET in == LoopInputs(locations, loc)
       IN  /\ lc_map' = in.map
           /\ np_hand' = xr_reproject(in.hand, "average")
           /\ np_MNDWI' = in.mndwi
           /\ np_google_buildings_mask' = xr_reproject(in.buildings, "average")
           /\ np_wsf2019' = xr_reproject(in.wsf, "nearest")
    /\ np_lc_map' = lc_map'
    /\ np_river_network_mask' = xr_rasterize(river_network, lc_map')
    /\ np_road_network_mask' = xr_rasterize(road_network, lc_map')
    /\ np_shorelines_2021_mask' = ShoreMask(shorelines_gdf_2021, lc_map')
    /\ LET pass == BatchPass(np_lc_map', np_hand', np_river_network_mask', np_MNDWI',
                             np_google_buildings_mask', np_wsf2019',
                             np_road_network_mask', np_shorelines_2021_mask',
                             BatchBuiltValue)
       IN  /\ np_lc_map_postproc' = Final(pass)
           /\ lc_map_postproc' = Final(pass)
           /\ after' = [after EXCEPT !["batch"] = pass]
           /\ prediction_maps_postproc' = Append(prediction_maps_postproc, Final(pass))
    /\ loc' = loc + 1
    /\ pc' = IF loc = Locations THEN "done" ELSE "batch"
    /\ UNCHANGED <<nb, files, vectors, training_data, clipped, locations>>

\* the testing notebook on Locations rasters: the step-by-step cells process
\* the raster loaded last, then the loop processes every raster
InitLoop ==
    /\ nb = "testing"
    /\ pc = "load"
    /\ locations \in [1..Locations -> LocationInputs]
    /\ files = ("map" :> locations[Locations].map) @@
               ("hand" :> locations[Locations].hand) @@
               ("mndwi" :> locations[Locations].mndwi) @@
               ("buildings" :> locations[Locations].buildings) @@
               ("wsf" :> locations[Locations].wsf) @@
               ("roads" :> CHOOSE g \in RoadFiles :
                              \E f \in g : f.surface = "asphalt") @@
               ("rivers" :> CHOOSE g \in RiverFiles :
                               \E f \in g : f.waterway = "river") @@
               ("coast" :> CHOOSE g \in Coastlines :
                              \E f \in g : f.dist[Focus] > ShoreBufferM)
    /\ clipped = [l \in Layers |-> "full"]
    /\ prediction_maps_postproc = <<>>
    /\ loc = 1
    /\ road_network = None
    /\ river_network = None
    /\ shorelines_gdf_2021 = None
    /\ lc_map = None
    /\ np_lc_map = None
    /\ np_lc_map_postproc = None
    /\ np_hand = None
    /\ np_river_network_mask = None
    /\ np_MNDWI = None
    /\ np_google_buildings_mask = None
    /\ np_wsf2019 = None
    /\ np_road_network_mask = None
    /\ np_shorelines_2021_mask = None
    /\ lc_map_postproc = None
    /\ after = [k \in Passes |-> <<>>]
    /\ training_data = None

NextLoop ==
    \/ LoadMap
    \/ LoadRoads
    \/ LoadRivers
    \/ DemoFilter
    \/ DemoWater
    \/ DemoIndex
    \/ DemoSettlement
    \/ DemoRoad
    \/ DemoVegetation
    \/ DemoMangrove
    \/ LoopIteration

SpecLoop == InitLoop /\ [][NextLoop]_vars

\* the district notebook with its last cell executed twice, on one road file
\* and one waterway file
InitRerun ==
    /\ nb = "district"
    /\ pc = "load"
    /\ files = ("roads" :> CHOOSE g \in RoadFiles :
                              \E f \in g : f.surface = "asphalt") @@
               ("rivers" :> CHOOSE g \in RiverFiles :
                               \E f \in g : f.waterway = "canal")
    /\ road_network = None
    /\ river_network = None
    /\ shorelines_gdf_2021 = None
    /\ lc_map = None
    /\ np_lc_map = None
    /\ np_lc_map_postproc = None
    /\ np_hand = None
    /\ np_river_network_mask = None
    /\ np_MNDWI = None
    /\ np_google_buildings_mask = None
    /\ np_wsf2019 = None
    /\ np_road_network_mask = None
    /\ np_shorelines_2021_mask = None
    /\ lc_map_postproc = None
    /\ after = [k \in Passes |-> <<>>]
    /\ training_data = None
    /\ clipped = [l \in Layers |-> "full"]
    /\ locations = None
    /\ prediction_maps_postproc = None
    /\ loc = None

NextRerun ==
    \/ LoadMap
    \/ LoadRoads
    \/ LoadRivers
    \/ LoadCoastline
    \/ DistrictCell
    \/ DistrictCellAgain

SpecRerun == InitRerun /\ [][NextRerun]_vars

\* the flooded-vegetation specification: a one-row raster wider than the
\* dilation radius
VegGrid == {1} \X (1..VegCols)
VegCodes == {0, 41, 51}

\* a value at the first cell, another at every other cell
VegAt(v, neutral) == [p \in VegGrid |-> IF p = <<1, 1>> THEN v ELSE neutral]

\* the flooded-vegetation cell of the testing notebook, on every raster of
\* VegCodes: the cells above it have run with a listed road across the
\* first cell, no waterway on the raster, elevation 50, water index below 0
\* and no footprint
InitVegetation ==
    /\ nb = "testing"
    /\ pc = "vegetation"
    /\ lc_map \in [VegGrid -> VegCodes]
    /\ files = ("map" :> lc_map)
    /\ road_network = buffer({[surface |-> "asphalt", dist |-> VegAt(5, 1000)]},
                             RoadBufferM)
    /\ river_network = {[waterway |-> "canal", dist |-> VegAt(1000, 1000)]}
    /\ shorelines_gdf_2021 = None
    /\ np_lc_map = lc_map
    /\ np_hand = xr_reproject(VegAt(<<50>>, <<50>>), "average")
    /\ np_river_network_mask = xr_rasterize(river_network, lc_map)
    /\ np_MNDWI = VegAt(-1, -1)
    /\ np_google_buildings_mask = xr_reproject(VegAt(<<0>>, <<0>>), "average")
    /\ np_wsf2019 = xr_reproject(VegAt(<<0>>, <<0>>), "nearest")
    /\ np_road_network_mask = xr_rasterize(road_network, lc_map)
    /\ np_shorelines_2021_mask = None
    /\ LET w1 == ModeFilter(np_lc_map)
           w2 == WaterByHand(np_lc_map, w1, np_hand, np_river_network_mask)
           w3 == WaterByIndex(w2, np_MNDWI)
           w4 == SettlementByFootprint(w3, np_google_buildings_mask, np_wsf2019,
                                       DemoBuiltValue)
           w5 == SettlementByRoad(w4, np_road_network_mask)
       IN  /\ np_lc_map_postproc = w5
           /\ after = [k \in Passes |->
                         IF k = "demo"
                         THEN <<Did("filter", w1), Did("water", w2), Did("mndwi", w3),
                                Did("settlement", w4), Did("road", w5)>>
                         ELSE <<>>]
    /\ lc_map_postproc = None
    /\ training_data = None
    /\ clipped = [l \in Layers |-> "full"]
    /\ locations = None
    /\ prediction_maps_postproc = None
    /\ loc = None

NextVegetation == DemoVegetation

SpecVegetation == InitVegetation /\ [][NextVegetation]_vars

\* the mode filter alone, on every two-row raster of FilterCodes
InitFilter ==
    /\ nb = "testing"
    /\ pc = "filter"
    /\ lc_map \in [FilterGrid -> FilterCodes]
    /\ files = ("map" :> lc_map)
    /\ road_network = {}
    /\ river_network = {}
    /\ shorelines_gdf_2021 = None
    /\ np_lc_map = None
    /\ np_lc_map_postproc = None
    /\ np_hand = None
    /\ np_river_network_mask = None
    /\ np_MNDWI = None
    /\ np_google_buildings_mask = None
    /\ np_wsf2019 = None
    /\ np_road_network_mask = None
    /\ np_shorelines_2021_mask = None
    /\ lc_map_postproc = None
    /\ after = [k \in Passes |-> <<>>]
    /\ training_data = None
    /\ clipped = [l \in Layers |-> "full"]
    /\ locations = None
    /\ prediction_maps_postproc = None
    /\ loc = None

NextFilter == DemoFilter

SpecFilter == InitFilter /\ [][NextFilter]_vars

\* the training notebook: load the labels, merge the classes
InitMerge ==
    /\ nb = "training"
    /\ pc = "load"
    /\ files = <<>>
    /\ road_network = None
    /\ river_network = None
    /\ shorelines_gdf_2021 = None
    /\ lc_map = None
    /\ np_lc_map = None
    /\ np_lc_map_postproc = None
    /\ np_hand = None
    /\ np_river_network_mask = None
    /\ np_MNDWI = None
    /\ np_google_buildings_mask = None
    /\ np_wsf2019 = None
    /\ np_road_network_mask = None
    /\ np_shorelines_2021_mask = None
    /\ lc_map_postproc = None
    /\ after = [k \in Passes |-> <<>>]
    /\ training_data = None
    /\ clipped = [l \in Layers |-> "full"]
    /\ locations = None
    /\ prediction_maps_postproc = None
    /\ loc = None

postprocessing == <<vectors, arrays, lc_map, lc_map_postproc, after>>

\* training notebook, cell "Load input data shapefile"
LoadTraining ==
    /\ nb = "training" /\ pc = "load"
    /\ \E t \in TrainingFiles :
          /\ Read("training", TrainingFiles, t)
          /\ files' = ("training" :> t) @@ files
          /\ training_data' = t
    /\ pc' = "merge"
    /\ UNCHANGED <<nb, postprocessing, clipped, locations, prediction_maps_postproc, loc>>

\* training notebook, the class merging cell; the cell can be run again
MergeCell ==
    /\ nb = "training" /\ pc \in {"merge", "merged"}
    /\ training_data' = merge_classes(training_data)
    /\ pc' = IF pc = "merge" THEN "merged" ELSE "remerged"
    /\ UNCHANGED <<nb, files, postprocessing, clipped, locations,
                   prediction_maps_postproc, loc>>

NextMerge == LoadTraining \/ MergeCell

SpecMerge == InitMerge /\ [][NextMerge]_vars

----------------------------------------------------------------------------
(* Reading the history *)

WaterBody == dict_map["Water body"]
Settlements == dict_map["Settlements"]
Mangrove == dict_map["Mangrove"]
FloodedVeg == dict_map["Aquatic or regularly flooded herbaceous vegetation"]
FieldCrops == dict_map["Field crops"]
ForestPlantations == dict_map["Forest plantations"]

StepsOf(k) == {after[k][i].step : i \in DOMAIN after[k]}
Idx(k, s) == CHOOSE i \in DOMAIN after[k] : after[k][i].step = s
After(k, s) == after[k][Idx(k, s)].raster
Before(k, s) == after[k][Idx(k, s) - 1].raster
Finished(k) == "mangrove" \in StepsOf(k)

\* the sentinel the settlement rule of a pass compares the WSF layer with
Built(k) ==
    IF k = "demo" THEN DemoBuiltValue
    ELSE IF k = "batch" THEN BatchBuiltValue ELSE DistrictBuiltValue

\* the condition of the rule of step s at cell p, on the arrays of the state
Matches(k, s, p) ==
    CASE s = "water" ->
            (lc_map[p] = WaterBody /\ LE(np_hand[p], HandMax))
            \/ np_river_network_mask[p] = 1
      [] s = "mndwi" -> np_MNDWI[p] >= MNDWIMin
      [] s = "settlement" ->
            EQ(np_google_buildings_mask[p], 1) \/ EQ(np_wsf2019[p], Built(k))
      [] s = "road" -> np_road_network_mask[p] = 1
      [] s = "vegetation" -> UrbanBuffered(lc_map)[p] /\ lc_map[p] = FloodedVeg
      [] s = "mangrove" -> np_shorelines_2021_mask[p] = 0 /\ lc_map[p] = Mangrove
      [] OTHER -> FALSE

\* the rules folded in the order the specification gives
SpecifiedOrder(orig, hand, river, mndwi, buildings, wsf, road, shore, built) ==
    LET w1 == ModeFilter(orig)
        w2 == WaterByHand(orig, w1, hand, river)
        w3 == WaterByIndex(w2, mndwi)
        w4 == SettlementByFootprint(w3, buildings, wsf, built)
        w5 == SettlementByRoad(w4, road)
        w6 == FloodedVegetation(orig, w5)
    IN  MangroveByCoast(orig, w6, shore)

----------------------------------------------------------------------------
(* C1: a cell that is 0 in the input is 0 after the mode filter, after every
   rule step and in the output, whatever the auxiliary masks hold there. *)
C1_NoDataPreserved ==
    /\ \A k \in Passes : \A i \in DOMAIN after[k] : \A p \in DOMAIN lc_map :
          lc_map[p] = 0 => after[k][i].raster[p] = 0
    /\ lc_map_postproc # None =>
          \A p \in DOMAIN lc_map : lc_map[p] = 0 => lc_map_postproc[p] = 0

(* C2: the output of every pass equals the rules folded in the order filter,
   water-by-hydrology, water-by-index, settlement-by-footprint,
   settlement-by-road, flooded-vegetation, mangrove. *)
C2_OutputInSpecifiedOrder ==
    \A k \in Passes : Finished(k) =>
        After(k, "mangrove") =
            SpecifiedOrder(lc_map, np_hand, np_river_network_mask, np_MNDWI,
                           np_google_buildings_mask, np_wsf2019,
                           np_road_network_mask, np_shorelines_2021_mask, Built(k))

(* C3 as stated: a cell that is Water body at the end of Step 3 is Water body
   after each later step. *)
C3_WaterPersists ==
    \A k \in Passes : \A i, j \in DOMAIN after[k] : \A p \in DOMAIN lc_map :
        (after[k][i].step = "mndwi" /\ i < j /\ after[k][i].raster[p] = WaterBody)
            => after[k][j].raster[p] = WaterBody

(* C3 as amended: a cell that is Water body at the end of Step 3 is Water body
   after a later step unless the condition of one of the rules applied after
   Step 3 and up to that step holds at the cell. *)
C3_WaterPersistsUnlessMatched ==
    \A k \in Passes : \A i, j \in DOMAIN after[k] : \A p \in DOMAIN lc_map :
        (/\ after[k][i].step = "mndwi" /\ i < j
         /\ after[k][i].raster[p] = WaterBody
         /\ \A m \in (i + 1)..j : ~Matches(k, after[k][m].step, p))
            => after[k][j].raster[p] = WaterBody

\* a cell made Water body by Step 3 lies on the footprint value the
\* demonstration pass does not compare with, and is Water body in the output
C3_Witness ==
    /\ nb = "testing" /\ pc = "done"
    /\ \E p \in DOMAIN lc_map :
          /\ lc_map[p] # WaterBody
          /\ After("demo", "mndwi")[p] = WaterBody
          /\ EQ(np_wsf2019[p], 1)
          /\ After("demo", "mangrove")[p] = WaterBody

(* C4: a cell whose pre-filter value is Mangrove and whose coastline mask is 0
   is Forest plantations after the mangrove rule and in the output, whatever
   the earlier steps assigned; a Mangrove cell with mask 1 is left as it was
   by the rule. *)
C4_MangroveCorrectionFinal ==
    /\ \A k \in Passes : Finished(k) => \A p \in DOMAIN lc_map :
          /\ (lc_map[p] = 70 /\ np_shorelines_2021_mask[p] = 0)
                => After(k, "mangrove")[p] = 21
          /\ (lc_map[p] = 70 /\ np_shorelines_2021_mask[p] = 1)
                => After(k, "mangrove")[p] = Before(k, "mangrove")[p]
    /\ lc_map_postproc # None =>
          \A p \in DOMAIN lc_map :
              (lc_map[p] = 70 /\ np_shorelines_2021_mask[p] = 0)
                  => lc_map_postproc[p] = 21

\* a Mangrove cell outside the buffer that the road rule had made Settlements
C4_Witness ==
    /\ pc = "done"
    /\ \E p \in DOMAIN lc_map :
          /\ lc_map[p] = 70 /\ np_shorelines_2021_mask[p] = 0
          /\ np_road_network_mask[p] = 1
          /\ \E k \in Passes : Finished(k) /\ Before(k, "mangrove")[p] = 51
          /\ lc_map_postproc[p] = 21

(* C5: a cell whose pre-filter value is Water body, with elevation above
   drainage greater than 45 and river mask 0, holds its mode-filtered value
   after Step 2; every cell with water index >= 0 is Water body after Step 3. *)
C5_WaterThresholds ==
    \A k \in Passes : \A p \in DOMAIN lc_map :
        /\ ("water" \in StepsOf(k) /\ lc_map[p] = 44 /\ ~LE(np_hand[p], 45)
            /\ np_river_network_mask[p] = 0)
              => After(k, "water")[p] = After(k, "filter")[p]
        /\ ("mndwi" \in StepsOf(k) /\ np_MNDWI[p] >= 0)
              => After(k, "mndwi")[p] = 44

\* the scenario: Water body, elevation 50, no river, filtered to another
\* class, index at the threshold
C5_Witness ==
    \E k \in Passes : \E p \in DOMAIN lc_map :
        /\ "mndwi" \in StepsOf(k)
        /\ lc_map[p] = 44 /\ EQ(np_hand[p], 50) /\ np_river_network_mask[p] = 0
        /\ After(k, "water")[p] # 44
        /\ np_MNDWI[p] = 0
        /\ After(k, "mndwi")[p] = 44

\* the surface values the specification lists
ListedSurfaces ==
    {"asphalt", "paved", "compacted", "cobblestone", "concrete", "metal",
     "paving_stones", "paving_stones:30"}

\* a road of a listed surface passes within 10 m of cell p
NearListedRoad(p) ==
    \E f \in files["roads"] : f.surface \in ListedSurfaces /\ f.dist[p] <= 10

(* C6: only roads whose surface is listed are buffered and rasterised; a cell
   within 10 m of unlisted roads only has road mask 0 and is left unchanged
   by the road rule. *)
C6_RoadAllowList ==
    /\ "roads" \in DOMAIN files =>
          \A f \in road_network : f.surface \in ListedSurfaces
    /\ \A k \in Passes : "road" \in StepsOf(k) => \A p \in DOMAIN lc_map :
          ~NearListedRoad(p) =>
              /\ np_road_network_mask[p] = 0
              /\ After(k, "road")[p] = Before(k, "road")[p]

\* a dirt road 5 m from a cell that is not Settlements in the output
C6_Witness ==
    /\ pc = "done"
    /\ \E p \in DOMAIN lc_map :
          /\ \E f \in files["roads"] : f.surface = "dirt" /\ f.dist[p] <= 10
          /\ np_road_network_mask[p] = 0
          /\ lc_map_postproc[p] # 51

\* Steps 6 and 7 after the demonstration's Step 5, in the order given and swapped
Specified67 ==
    MangroveByCoast(lc_map, FloodedVegetation(lc_map, After("demo", "road")),
                    np_shorelines_2021_mask)
Swapped67 ==
    FloodedVegetation(lc_map,
                      MangroveByCoast(lc_map, After("demo", "road"),
                                      np_shorelines_2021_mask))

\* the fixture: a flooded-vegetation cell outside the coastline buffer and
\* within the dilation of a settlement cell
Fixture67 ==
    \E p \in DOMAIN lc_map :
        /\ lc_map[p] = 41
        /\ np_shorelines_2021_mask[p] = 0
        /\ \E q \in DOMAIN lc_map : q # p /\ lc_map[q] = 51
        /\ UrbanBuffered(lc_map)[p]

(* C7 as stated: on the fixture, the mangrove rule applied before the
   flooded-vegetation rule gives a raster that differs from the specified
   order in at least one cell. *)
C7_SwapChangesFixture ==
    (Finished("demo") /\ Fixture67) => Swapped67 # Specified67

(* C7 as amended: for every input the mangrove rule applied before the
   flooded-vegetation rule gives the same raster as the specified order. *)
C7_Steps67Commute ==
    Finished("demo") =>
        /\ Specified67 = After("demo", "mangrove")
        /\ Swapped67 = Specified67

C7_Witness ==
    /\ Finished("demo") /\ Fixture67
    /\ \E p \in DOMAIN lc_map : After("demo", "mangrove")[p] = 12
    /\ Swapped67 = After("demo", "mangrove")

(* C8: the mode filter returns a populated cell's own value when the populated
   cells under the radius-2 disk around it all hold that value; a raster whose
   populated cells all share one value keeps every populated cell. *)
C8_UniformUnchanged ==
    np_lc_map_postproc # None =>
        LET first == after["demo"][1].raster
            populated == {p \in DOMAIN lc_map : lc_map[p] # 0}
        IN  /\ \A p \in populated :
                  (\A q \in DOMAIN lc_map :
                       ((q[1] - p[1]) * (q[1] - p[1]) + (q[2] - p[2]) * (q[2] - p[2]) <= 4
                        /\ lc_map[q] # 0) => lc_map[q] = lc_map[p])
                      => first[p] = lc_map[p]
            /\ (\A p, q \in populated : lc_map[p] = lc_map[q])
                  => \A p \in populated : first[p] = lc_map[p]

\* a populated cell with no-data cells and cells of its own class under the
\* disk, in a raster that holds another class too
C8_Witness ==
    /\ np_lc_map_postproc # None
    /\ \E p, q, r, x \in DOMAIN lc_map :
          /\ lc_map[p] = 51 /\ lc_map[q] = 0 /\ lc_map[r] = 0 /\ q # r
          /\ {q, r} \subseteq Under(lc_map, p, ModalFootprint)
          /\ \A y \in Under(lc_map, p, ModalFootprint) : lc_map[y] \in {0, 51}
          /\ lc_map[x] = 44
          /\ np_lc_map_postproc[p] = 51

(* C9: the batch loop iteration gives, cell for cell, the raster the
   step-by-step cells gave on the same inputs. *)
C9_BatchEqualsDemo ==
    (nb = "testing" /\ Finished("batch")) =>
        After("batch", "mangrove") = After("demo", "mangrove")

\* the coastline mask the testing notebook's loop rasterises from the same
\* coastline: selected by year, buffered once by 50 km
TestingShoreMask ==
    ShoreMask(buffer(SelectShorelines(files["coast"]), ShoreBufferM), lc_map)

(* C10: the district cell gives the raster one iteration of the testing
   notebook's batch loop gives on the same inputs, and its first computation
   of the mode filter changes nothing. *)
C10_DistrictEqualsBatch ==
    (nb = "district" /\ Finished("district")) =>
        /\ np_shorelines_2021_mask = TestingShoreMask
        /\ lc_map_postproc =
              Final(BatchPass(lc_map, np_hand, np_river_network_mask, np_MNDWI,
                              np_google_buildings_mask, np_wsf2019,
                              np_road_network_mask, TestingShoreMask,
                              BatchBuiltValue))
        /\ After("district", "filter") = After("district", "filter0")
        /\ After("district", "filter") = ModeFilter(lc_map)

\* the district cell has run where the settlement footprint is 1, a listed
\* road passes and the mangrove rule corrects the cell
C10_Witness ==
    /\ nb = "district" /\ pc = "done"
    /\ \E p \in DOMAIN lc_map :
          /\ EQ(np_wsf2019[p], 1)
          /\ np_road_network_mask[p] = 1
          /\ lc_map[p] = 70 /\ np_shorelines_2021_mask[p] = 0
          /\ After("district", "road")[p] = 51
          /\ lc_map_postproc[p] = 21

\* the merges the notebook documents: merged-away code -> kept code
Documented ==
    (33 :> 31) @@ (42 :> 41) @@ (62 :> 61) @@ (73 :> 72) @@ (76 :> 72) @@
    (77 :> 72) @@ (78 :> 75) @@ (79 :> 74)

(* C11: after the merge every label is mapped as documented, a label outside
   the merged-away codes is unchanged, no record keeps a merged-away code, the
   labels are codes of the post-processing class mapping, and a second run of
   the merge changes nothing. *)
C11_ClassMerging ==
    pc \in {"merged", "remerged"} =>
        /\ \A r \in DOMAIN training_data :
              LET old == files["training"][r]
              IN  /\ old \in DOMAIN Documented => training_data[r] = Documented[old]
                  /\ old \notin DOMAIN Documented => training_data[r] = old
                  /\ training_data[r] \notin DOMAIN Documented
                  /\ training_data[r] \in ClassCodes
        /\ Cardinality(ClassCodes) = 13
        /\ merge_classes(training_data) = training_data

\* the merge has run twice on records labelled Miombo open and Grassland
C11_Witness ==
    /\ pc = "remerged"
    /\ \E r, q \in DOMAIN training_data :
          /\ files["training"][r] = 79 /\ training_data[r] = 74
          /\ files["training"][q] = 31 /\ training_data[q] = 31

\* the attribute filter left no road, or no waterway
NoRoadSelected == "roads" \in DOMAIN files /\ road_network = {}
NoRiverSelected == "rivers" \in DOMAIN files /\ river_network = {}

(* C13: when no road or no waterway passes the attribute filter the run does
   not fail; the mask of the empty layer is all zero, its rule changes no
   cell, and the run ends with an output. *)
C13_EmptySelectionNonFatal ==
    (NoRoadSelected \/ NoRiverSelected) =>
        /\ pc # "error"
        /\ \A k \in Passes : \A p \in DOMAIN lc_map :
              /\ ("road" \in StepsOf(k) /\ NoRoadSelected) =>
                    /\ np_road_network_mask[p] = 0
                    /\ After(k, "road")[p] = Before(k, "road")[p]
              /\ ("water" \in StepsOf(k) /\ NoRiverSelected) =>
                    np_river_network_mask[p] = 0

\* the steps of a pass that apply a reclassification rule
RuleSteps == {"water", "mndwi", "settlement", "road", "vegetation", "mangrove"}

(* C12: when the clipping of an auxiliary raster fails or leaves part of the
   extent uncovered, the run stops with an error before any reclassification
   rule is applied, and no output raster is produced. *)
C12_CoverageFailureFatal ==
    (\E l \in Layers : clipped[l] # "full") =>
        /\ \A k \in Passes : StepsOf(k) \cap RuleSteps = {}
        /\ lc_map_postproc = None
        /\ pc # "done"

(* C14: a cell whose input value is neither 0 nor a code of the class mapping
   is replaced by no step unless a validation warning was raised.  The
   notebooks hold no statement that raises a warning, so in every state none
   was raised, and the cell has to keep its value after every step. *)
C14_UnexpectedCodeKept ==
    \A k \in Passes : \A n \in DOMAIN after[k] : \A p \in DOMAIN lc_map :
        (lc_map[p] # 0 /\ lc_map[p] \notin ClassCodes)
            => after[k][n].raster[p] = lc_map[p]

(* C15: the raster after the mode filter and after every rule step, and the
   output, have exactly the cells of the input raster. *)
C15_ShapePreserved ==
    /\ \A k \in Passes : \A n \in DOMAIN after[k] :
          DOMAIN after[k][n].raster = DOMAIN lc_map
    /\ lc_map_postproc # None => DOMAIN lc_map_postproc = DOMAIN lc_map

\* a finished run whose output differs from the input in a cell
C15_Witness ==
    /\ pc = "done"
    /\ DOMAIN lc_map_postproc = DOMAIN lc_map
    /\ \E p \in DOMAIN lc_map : lc_map_postproc[p] # lc_map[p]

\* every populated cell of the input holds a code of the class mapping
KnownCodes ==
    lc_map # None /\ \A p \in DOMAIN lc_map : lc_map[p] \in ClassCodes \cup {0}

(* C16: if every populated cell of the input holds a code of the class
   mapping, every cell of the working raster holds 0 or a code of the class
   mapping after the mode filter and after every rule step. *)
C16_ClassCodeClosure ==
    KnownCodes =>
        \A k \in Passes : \A n \in DOMAIN after[k] : \A p \in DOMAIN lc_map :
            after[k][n].raster[p] \in ClassCodes \cup {0}

\* a finished run on known codes in which the water index rule and the
\* mangrove rule wrote cells
C16_Witness ==
    /\ pc = "done" /\ KnownCodes
    /\ \E k \in Passes : \E p \in DOMAIN lc_map :
          /\ Finished(k)
          /\ Before(k, "mndwi")[p] # 44 /\ After(k, "mndwi")[p] = 44
          /\ lc_map[p] = 70 /\ lc_map_postproc[p] = 21

(* C20: immediately after the water-by-hydrology rule a cell is Water body if
   its pre-filter value is Water body and its elevation above drainage is at
   most 45, or its river mask is 1; every other cell holds its mode-filtered
   value. *)
C20_Step2Result ==
    \A k \in Passes : "water" \in StepsOf(k) => \A p \in DOMAIN lc_map :
        After(k, "water")[p] =
            IF (lc_map[p] = 44 /\ LE(np_hand[p], 45)) \/ np_river_network_mask[p] = 1
            THEN 44 ELSE After(k, "filter")[p]

\* a cell that is Water body before the filter and not after it, at
\* elevation 45 with no river, is Water body after the rule
C20_Witness ==
    \E k \in Passes : \E p \in DOMAIN lc_map :
        /\ "water" \in StepsOf(k)
        /\ lc_map[p] = 44 /\ EQ(np_hand[p], 45) /\ np_river_network_mask[p] = 0
        /\ After(k, "filter")[p] # 44
        /\ After(k, "water")[p] = 44

\* the rules in the order the specification gives, and the value each assigns
SpecifiedSteps == <<"water", "mndwi", "settlement", "road", "vegetation", "mangrove">>

Assigned(s) ==
    CASE s \in {"water", "mndwi"} -> 44
      [] s \in {"settlement", "road"} -> 51
      [] s = "vegetation" -> 12
      [] s = "mangrove" -> 21

(* C19: a cell where the conditions of two or more rules hold ends with the
   value of the rule that comes latest, in the order filter, water-by-hydrology,
   water-by-index, settlement-by-footprint, settlement-by-road,
   flooded-vegetation, mangrove, among the rules whose condition holds there. *)
C19_LastWriteWins ==
    \A k \in Passes : Finished(k) => \A p \in DOMAIN lc_map :
        LET hit == {n \in DOMAIN SpecifiedSteps : Matches(k, SpecifiedSteps[n], p)}
            last == CHOOSE n \in hit : \A m \in hit : m <= n
        IN  Cardinality(hit) >= 2 =>
                After(k, "mangrove")[p] = Assigned(SpecifiedSteps[last])

\* the output of one location from its own rasters and the layers as read
\* from the files: roads and waterways selected, the coastline buffered once
Alone(in) ==
    LET roads == xr_rasterize(SelectRoads(files["roads"]), in.map)
        rivers == xr_rasterize(SelectRivers(files["rivers"]), in.map)
        shore == ShoreMask(buffer(SelectShorelines(files["coast"]), ShoreBufferM), in.map)
    IN  Final(BatchPass(in.map, xr_reproject(in.hand, "average"), rivers, in.mndwi,
                        xr_reproject(in.buildings, "average"),
                        xr_reproject(in.wsf, "nearest"), roads, shore, BatchBuiltValue))

(* C17: when the loop processes several rasters, the output for raster n is
   the output computed from raster n and its own auxiliary layers alone,
   whatever the other rasters are and whatever processing them left behind. *)
C17_RasterIndependence ==
    prediction_maps_postproc # None =>
        \A n \in DOMAIN prediction_maps_postproc :
            prediction_maps_postproc[n] = Alone(locations[n])

\* the loop has processed every location; two locations differ in input and
\* in output, and the mangrove rule has corrected a cell of the first
C17_Witness ==
    /\ pc = "done" /\ Len(prediction_maps_postproc) = Locations
    /\ locations[1] # locations[2]
    /\ prediction_maps_postproc[1] # prediction_maps_postproc[2]
    /\ \E p \in Cells :
          locations[1].map[p] = 70 /\ prediction_maps_postproc[1][p] = 21

(* C21: a cell that is Water body after Step 2 is Water body after Step 3;
   the Water-body cells after Step 3 are the Water-body cells after Step 2
   together with the cells whose water index is at least 0; a cell Step 3
   changes is Water body afterwards. *)
C21_IndexNeverRetracts ==
    \A k \in Passes : "mndwi" \in StepsOf(k) => \A p \in DOMAIN lc_map :
        /\ After(k, "water")[p] = 44 => After(k, "mndwi")[p] = 44
        /\ After(k, "mndwi")[p] = 44 <=>
              (After(k, "water")[p] = 44 \/ np_MNDWI[p] >= 0)
        /\ After(k, "mndwi")[p] # After(k, "water")[p] => After(k, "mndwi")[p] = 44

\* Step 2 made a cell Water body whose index is below 0, and Step 3 left it so
C21_Witness ==
    \E k \in Passes : \E p \in DOMAIN lc_map :
        /\ "mndwi" \in StepsOf(k)
        /\ After(k, "filter")[p] # 44 /\ After(k, "water")[p] = 44
        /\ np_MNDWI[p] < 0
        /\ After(k, "mndwi")[p] = 44


\* the settlement-footprint layer marks the cell as built: a value that is
\* not 0
IsBuilt(x) == x # NaN /\ x[1] # 0

(* C22: immediately after the settlement-by-footprint rule every cell whose
   building mask equals 1 or whose settlement-footprint mask holds the value
   the layer uses for built cells is Settlements, every other cell is as it
   was before the step, in every place the rule is applied. *)
C22_Step4Result ==
    \A k \in Passes : "settlement" \in StepsOf(k) => \A p \in DOMAIN lc_map :
        After(k, "settlement")[p] =
            IF EQ(np_google_buildings_mask[p], 1) \/ IsBuilt(np_wsf2019[p])
            THEN 51 ELSE Before(k, "settlement")[p]


(* C25: the elevation-above-drainage array is the average of the source
   pixels overlapping each cell; the building-footprint and
   settlement-footprint arrays hold at each cell the value of the nearest
   source pixel, and the coastline mask holds 0 or 1, so a binary mask holds
   only its indicator values after resampling. *)
C25_ResamplingPerLayer ==
    /\ np_hand # None => \A p \in DOMAIN np_hand :
          np_hand[p] = <<SumSeq(files["hand"][p]), Len(files["hand"][p])>>
    /\ np_google_buildings_mask # None => \A p \in DOMAIN np_google_buildings_mask :
          /\ np_google_buildings_mask[p] = <<files["buildings"][p][1], 1>>
          /\ EQ(np_google_buildings_mask[p], 0) \/ EQ(np_google_buildings_mask[p], 1)
    /\ np_wsf2019 # None => \A p \in DOMAIN np_wsf2019 :
          np_wsf2019[p] = <<files["wsf"][p][1], 1>>
    /\ np_shorelines_2021_mask # None => \A p \in DOMAIN np_shorelines_2021_mask :
          np_shorelines_2021_mask[p] \in {0, 1}


\* cell q lies under the radius-5 disk centred on cell p
Within5(p, q) ==
    (q[1] - p[1]) * (q[1] - p[1]) + (q[2] - p[2]) * (q[2] - p[2]) <= 25

(* C23: after the flooded-vegetation rule a cell is Field crops by the rule
   if and only if its pre-filter value is 41 and a cell whose pre-filter
   value is 51 lies within the radius-5 disk around it; every other cell is
   as it was before the step, whatever cells the mode filter or Steps 4-5
   made Settlements. *)
C23_OriginalSettlementsOnly ==
    \A k \in Passes : "vegetation" \in StepsOf(k) => \A p \in DOMAIN lc_map :
        After(k, "vegetation")[p] =
            IF lc_map[p] = 41 /\ \E q \in DOMAIN lc_map : lc_map[q] = 51 /\ Within5(p, q)
            THEN 12 ELSE Before(k, "vegetation")[p]

\* a flooded-vegetation cell five cells from the only original settlement
\* became Field crops; another, which the road rule had made Settlements and
\* which has no original settlement within the disk, did not
C23_Witness ==
    /\ "vegetation" \in StepsOf("demo")
    /\ \E p, q, r \in DOMAIN lc_map :
          /\ lc_map[p] = 41 /\ lc_map[q] = 51
          /\ (q[2] - p[2]) * (q[2] - p[2]) = 25
          /\ \A x \in DOMAIN lc_map : lc_map[x] = 51 => x = q
          /\ After("demo", "vegetation")[p] = 12
          /\ lc_map[r] = 41 /\ Before("demo", "vegetation")[r] = 51
          /\ ~Within5(r, q)
          /\ After("demo", "vegetation")[r] = 51


\* the populated cells of the input under the radius-2 disk centred on p
Voters(p) ==
    {q \in DOMAIN lc_map :
        /\ (q[1] - p[1]) * (q[1] - p[1]) + (q[2] - p[2]) * (q[2] - p[2]) <= 4
        /\ lc_map[q] # 0}

\* how many of them hold value v
Votes(p, v) == Cardinality({q \in Voters(p) : lc_map[q] = v})

(* C24: for every populated cell the filtered value is not 0, is the value of
   a populated cell under the radius-2 disk centred on it, and no value has
   more populated cells under the disk than it has. *)
C24_ModeFilterVote ==
    np_lc_map_postproc # None =>
        LET first == after["demo"][1].raster
        IN  \A p \in DOMAIN lc_map : lc_map[p] # 0 =>
                /\ first[p] # 0
                /\ \E q \in Voters(p) : lc_map[q] = first[p]
                /\ \A q \in Voters(p) : Votes(p, lc_map[q]) <= Votes(p, first[p])

\* a populated cell outvoted by another value, with more no-data cells under
\* its disk than cells of the winning value
C24_Witness ==
    /\ np_lc_map_postproc # None
    /\ \E p \in DOMAIN lc_map :
          /\ lc_map[p] # 0
          /\ np_lc_map_postproc[p] # lc_map[p]
          /\ Votes(p, np_lc_map_postproc[p]) > Votes(p, lc_map[p])
          /\ Cardinality({q \in Under(lc_map, p, ModalFootprint) : lc_map[q] = 0})
                > Votes(p, np_lc_map_postproc[p])


\* the populated cells under the disk of p other than p
Others(p) == Voters(p) \ {p}

\* p is populated, differs from every other populated cell under its disk,
\* and those cells, at least n of them, share one value
Isolated(p, n) ==
    /\ lc_map[p] # 0
    /\ Cardinality(Others(p)) >= n
    /\ \A q, r \in Others(p) : lc_map[q] = lc_map[r] /\ lc_map[q] # lc_map[p]

(* C27 as stated: a populated cell whose value differs from all other
   populated cells under its radius-2 disk, where those cells all share one
   value, holds that shared value after the mode filter. *)
C27_IsolatedCellReplaced ==
    np_lc_map_postproc # None =>
        \A p \in DOMAIN lc_map : Isolated(p, 1) =>
            \A q \in Others(p) : after["demo"][1].raster[p] = lc_map[q]

(* C27 as amended: such a cell holds the shared value after the mode filter
   when at least two other populated cells lie under its disk; when exactly
   one does, the two values tie and the cell holds the lower of the two. *)
C27_IsolatedCellOutvoted ==
    np_lc_map_postproc # None =>
        \A p \in DOMAIN lc_map : \A q \in Others(p) :
            LET first == after["demo"][1].raster
            IN  /\ Isolated(p, 2) => first[p] = lc_map[q]
                /\ (Isolated(p, 1) /\ ~Isolated(p, 2)) =>
                      first[p] = IF lc_map[p] < lc_map[q] THEN lc_map[p] ELSE lc_map[q]

\* a cell of one class among two or more cells of another class has taken
\* their value
C27_Witness ==
    /\ np_lc_map_postproc # None
    /\ \E p \in DOMAIN lc_map : \E q \in Others(p) :
          /\ Isolated(p, 2)
          /\ np_lc_map_postproc[p] = lc_map[q]


\* the statement of step s of pass k, applied to the working raster work with
\* the arrays of the state
StepOp(k, s, work) ==
    CASE s \in {"filter0", "filter"} -> ModeFilter(lc_map)
      [] s = "water" -> WaterByHand(lc_map, work, np_hand, np_river_network_mask)
      [] s = "mndwi" -> WaterByIndex(work, np_MNDWI)
      [] s = "settlement" ->
            SettlementByFootprint(work, np_google_buildings_mask, np_wsf2019, Built(k))
      [] s = "road" -> SettlementByRoad(work, np_road_network_mask)
      [] s = "vegetation" -> FloodedVegetation(lc_map, work)
      [] s = "mangrove" -> MangroveByCoast(lc_map, work, np_shorelines_2021_mask)

\* the step applied one cell at a time in the given order, every update
\* reading the raster the updates before it have left
RECURSIVE InPlace(_, _, _, _)
InPlace(k, s, order, work) ==
    IF order = <<>> THEN work
    ELSE InPlace(k, s, Tail(order),
                 [work EXCEPT ![Head(order)] = StepOp(k, s, work)[Head(order)]])

\* every order of the cells
Orders(S) == {o \in [1..Cardinality(S) -> S] : \A p \in S : \E n \in DOMAIN o : o[n] = p}

(* C26: for the mode filter and every rule, applying the step's updates one
   cell at a time, in any order, each update reading what the updates before
   it left, gives the raster the step gave: the new value of a cell depends
   on no value written in the same step. *)
C26_CellIndependence ==
    \A k \in Passes : \A n \in DOMAIN after[k] :
        LET s == after[k][n].step
            start == IF s \in {"filter0", "filter"} THEN lc_map
                     ELSE after[k][n - 1].raster
        IN  \A o \in Orders(DOMAIN lc_map) :
                InPlace(k, s, o, start) = after[k][n].raster

\* the flooded-vegetation rule changed a cell because of a neighbour that is
\* Settlements before the filter and was not Settlements when the step began
C26_Witness ==
    \E k \in Passes : \E p, q \in DOMAIN lc_map :
        /\ "vegetation" \in StepsOf(k) /\ p # q
        /\ lc_map[q] = 51 /\ Before(k, "vegetation")[q] # 51
        /\ lc_map[p] = 41 /\ Before(k, "vegetation")[p] # 12
        /\ After(k, "vegetation")[p] = 12


\* no rule's condition holds at cell p
Unmatched(k, p) == \A s \in RuleSteps : ~Matches(k, s, p)

(* C28: a cell at which none of the six rule conditions holds has, in the
   output, its mode-filtered value; and each rule step leaves every cell at
   which its own condition does not hold as it was before the step. *)
C28_OnlyMatchedCellsChange ==
    \A k \in Passes : \A p \in DOMAIN lc_map :
        /\ (Finished(k) /\ Unmatched(k, p)) =>
              After(k, "mangrove")[p] = After(k, "filter")[p]
        /\ \A s \in RuleSteps \cap StepsOf(k) :
              ~Matches(k, s, p) => After(k, s)[p] = Before(k, s)[p]

\* in a finished run a cell no rule matched holds its filtered value, which
\* is not its input value, while a rule changed another cell
C28_Witness ==
    \E k \in Passes : \E p, q \in DOMAIN lc_map :
        /\ Finished(k) /\ Unmatched(k, p)
        /\ After(k, "filter")[p] # lc_map[p]
        /\ After(k, "mangrove")[p] = After(k, "filter")[p]
        /\ ~Unmatched(k, q)
        /\ After(k, "mangrove")[q] # After(k, "filter")[q]


\* the prediction map as the file holds it, read as uint8
InputRaster == [p \in DOMAIN files["map"] |-> files["map"][p] % 256]

(* C29: from the mode filter through Step 7 the pre-filter array holds
   exactly the values of the input file, and so does the loaded raster the
   masks are rasterised on. *)
C29_OriginalNeverModified ==
    np_lc_map # None => (np_lc_map = InputRaster /\ lc_map = InputRaster)

\* a run has finished in which the filter changed a cell and a rule changed a
\* cell, and the pre-filter array holds the input
C29_Witness ==
    /\ pc = "done" /\ np_lc_map = InputRaster
    /\ \E k \in Passes : \E p, q \in DOMAIN lc_map :
          /\ Finished(k)
          /\ After(k, "filter")[p] # np_lc_map[p]
          /\ After(k, "mangrove")[q] # After(k, "filter")[q]


\* the history of the first execution of the district cell, after a second
FirstExecution == SubSeq(after["district"], 1, Len(after["district"]) \div 2)

(* C30: a second execution of the district cell on the same loaded inputs
   gives the output raster the first execution gave, and the coastline mask
   of the second execution is the mask of the coastline buffered by 50 km. *)
C30_RerunIdempotent ==
    pc = "rerun" =>
        /\ lc_map_postproc = Final(FirstExecution)
        /\ np_shorelines_2021_mask = TestingShoreMask

====
